---- MODULE Spec2Model ----
(***************************************************************************)
(* Model of tools/pyrefly_bazel_query.py: the Bazel-backed source database *)
(* query.  Text (labels, paths, kinds, module names) is modelled as        *)
(* sequences of one-character strings so that the prefix, suffix, split    *)
(* and replace operations of the code are computed, not assumed.           *)
(***************************************************************************)
EXTENDS Integers, Sequences, FiniteSets, TLC

(***************************************************************************)
(* Text primitives (Python str methods used by the code).                  *)
(***************************************************************************)
StartsWith(s, p) == Len(p) <= Len(s) /\ SubSeq(s, 1, Len(p)) = p

EndsWith(s, p) == Len(p) <= Len(s) /\ SubSeq(s, Len(s) - Len(p) + 1, Len(s)) = p

Drop(s, n) == SubSeq(s, n + 1, Len(s))

Contains(s, c) == \E i \in 1..Len(s) : s[i] = c

IndexOf(s, c) == CHOOSE i \in 1..Len(s) : s[i] = c /\ \A j \in 1..(i - 1) : s[j] # c

Replace(s, a, b) == [i \in 1..Len(s) |-> IF s[i] = a THEN b ELSE s[i]]

RECURSIVE Split(_, _)
Split(s, c) ==
    IF ~Contains(s, c) THEN <<s>>
    ELSE <<SubSeq(s, 1, IndexOf(s, c) - 1)>> \o Split(Drop(s, IndexOf(s, c)), c)

RECURSIVE Join(_, _)
Join(parts, c) ==
    IF Len(parts) = 0 THEN <<>>
    ELSE IF Len(parts) = 1 THEN parts[1]
    ELSE parts[1] \o <<c>> \o Join(Tail(parts), c)

RECURSIVE Strip(_)
Strip(s) ==
    IF Len(s) = 0 THEN s
    ELSE IF s[1] = " " THEN Strip(Tail(s))
    ELSE IF s[Len(s)] = " " THEN Strip(SubSeq(s, 1, Len(s) - 1))
    ELSE s

Last(s) == s[Len(s)]

InSeq(x, s) == \E i \in 1..Len(s) : s[i] = x

SeqSet(s) == {s[i] : i \in 1..Len(s)}

\* Code points of the characters the model uses (Python compares str by code point).
Code ==
    (" " :> 32) @@ ("-" :> 45) @@ ("." :> 46) @@ ("/" :> 47) @@ ("1" :> 49) @@
    ("2" :> 50) @@ ("3" :> 51) @@ (":" :> 58) @@ ("@" :> 64) @@ ("B" :> 66) @@
    ("D" :> 68) @@ ("I" :> 73) @@ ("L" :> 76) @@ ("U" :> 85) @@ ("_" :> 95) @@
    ("a" :> 97) @@ ("b" :> 98) @@ ("c" :> 99) @@ ("d" :> 100) @@ ("e" :> 101) @@
    ("f" :> 102) @@ ("g" :> 103) @@ ("i" :> 105) @@ ("k" :> 107) @@ ("l" :> 108) @@
    ("m" :> 109) @@ ("n" :> 110) @@ ("o" :> 111) @@ ("p" :> 112) @@ ("r" :> 114) @@
    ("s" :> 115) @@ ("t" :> 116) @@ ("u" :> 117) @@ ("w" :> 119) @@ ("x" :> 120) @@
    ("y" :> 121) @@ ("z" :> 122)

\* a < b for Python str
StrLess(a, b) ==
    \/ Len(a) < Len(b) /\ SubSeq(b, 1, Len(a)) = a
    \/ \E i \in 1..Len(a) :
          /\ i <= Len(b)
          /\ SubSeq(a, 1, i - 1) = SubSeq(b, 1, i - 1)
          /\ Code[a[i]] < Code[b[i]]

\* sorted(S) for a set of str
RECURSIVE Sorted(_)
Sorted(S) ==
    IF S = {} THEN <<>>
    ELSE LET m == CHOOSE x \in S : \A y \in S \ {x} : StrLess(x, y)
         IN  <<m>> \o Sorted(S \ {m})

(***************************************************************************)
(* String constants of the program.                                        *)
(***************************************************************************)
PyPrefix == <<"p","y","_">>
PyBinaryPrefix == <<"p","y","_","b","i","n","a","r","y">>
PySuffix == <<".","p","y">>
InitSuffix == <<".","_","_","i","n","i","t","_","_">>
RootPrefix == <<"/","/">>
FileMarker == <<"-","-","f","i","l","e">>
BuildBazel == <<"B","U","I","L","D",".","b","a","z","e","l">>
BuildPlain == <<"B","U","I","L","D">>
Empty == <<>>

(***************************************************************************)
(* os.path functions the code calls (posixpath).                           *)
(***************************************************************************)
PathJoin2(a, b) ==
    IF StartsWith(b, <<"/">>) THEN b
    ELSE IF a = Empty \/ EndsWith(a, <<"/">>) THEN a \o b
    ELSE a \o <<"/">> \o b

PathJoin(a, b, c) == PathJoin2(PathJoin2(a, b), c)

RECURSIVE NormComps(_, _, _)
NormComps(comps, acc, rooted) ==
    IF Len(comps) = 0 THEN acc
    ELSE LET comp == Head(comps) IN
         IF comp = Empty \/ comp = <<".">> THEN NormComps(Tail(comps), acc, rooted)
         ELSE IF \/ comp # <<".",".">>
                 \/ (~rooted /\ Len(acc) = 0)
                 \/ (Len(acc) > 0 /\ Last(acc) = <<".",".">>)
              THEN NormComps(Tail(comps), Append(acc, comp), rooted)
         ELSE IF Len(acc) > 0
              THEN NormComps(Tail(comps), SubSeq(acc, 1, Len(acc) - 1), rooted)
         ELSE NormComps(Tail(comps), acc, rooted)

NormPath(path) ==
    IF path = Empty THEN <<".">>
    ELSE LET rooted == StartsWith(path, <<"/">>)
             slashes == IF ~rooted THEN Empty
                        ELSE IF StartsWith(path, <<"/","/">>) /\ ~StartsWith(path, <<"/","/","/">>)
                             THEN <<"/","/">>
                        ELSE <<"/">>
             body == Join(NormComps(Split(path, "/"), <<>>, rooted), "/")
             res == slashes \o body
         IN  IF res = Empty THEN <<".">> ELSE res

AbsPath(cwd, p) == NormPath(PathJoin2(cwd, p))

NonEmptyComps(p) == SelectSeq(Split(p, "/"), LAMBDA x : x # Empty)

RECURSIVE CommonLen(_, _)
CommonLen(a, b) ==
    IF Len(a) = 0 \/ Len(b) = 0 \/ Head(a) # Head(b) THEN 0
    ELSE 1 + CommonLen(Tail(a), Tail(b))

RelPath(cwd, path, start) ==
    LET start_list == NonEmptyComps(AbsPath(cwd, start))
        path_list == NonEmptyComps(AbsPath(cwd, path))
        i == CommonLen(start_list, path_list)
        rel_list == [k \in 1..(Len(start_list) - i) |-> <<".",".">>] \o Drop(path_list, i)
    IN  IF Len(rel_list) = 0 THEN <<".">> ELSE Join(rel_list, "/")

(***************************************************************************)
(* Label / path translation.                                               *)
(***************************************************************************)
\* file_label_to_path:  //pkg:filename.py -> pkg/filename.py
file_label_to_path(file_label) ==
    IF ~StartsWith(file_label, RootPrefix) THEN file_label
    ELSE LET pkg_and_file == Drop(file_label, 2) IN
         IF Contains(pkg_and_file, ":")
         THEN LET k == IndexOf(pkg_and_file, ":")
              IN  SubSeq(pkg_and_file, 1, k - 1) \o <<"/">> \o Drop(pkg_and_file, k)
         ELSE pkg_and_file

\* module_name_from_path:  path/to/__init__.py -> path.to ; path/to/file.py -> path.to.file
module_name_from_path(path) ==
    IF ~EndsWith(path, PySuffix) THEN Replace(path, "/", ".")
    ELSE LET mod == Replace(SubSeq(path, 1, Len(path) - 3), "/", ".")
         IN  IF EndsWith(mod, InitSuffix)
             THEN SubSeq(mod, 1, Len(mod) - Len(InitSuffix))
             ELSE mod

(***************************************************************************)
(* The environment: the workspace behind the external query interface, the *)
(* file system and the invocation.  Labels, kinds and paths are concrete   *)
(* texts; the dependency graph is left open (see DepAnswers).              *)
(***************************************************************************)
\* bounds of the model
MaxEdges == 3

LA == <<"/","/","s",":","r">>
LB == <<"/","/","c",":","c">>
LC == <<"@","p","/","/",":","a">>
LX == <<"/","/","x",":","x">>
Labels == {LA, LB, LC, LX}

\* labels the workspace enumeration kind('py_.* rule', //...) can list
WorkspacePyLabels == {LA, LB}

KindPyBinary == <<"p","y","_","b","i","n","a","r","y">>
KindPyLibrary == <<"p","y","_","l","i","b","r","a","r","y">>
KindCcLibrary == <<"c","c","_","l","i","b","r","a","r","y">>

\* one line of `bazel query --output label_kind`:  "<kind> rule <label>"
KindLine(kind, label) == kind \o <<" ","r","u","l","e"," ">> \o label

\* what the external system may print for a label_kind query of a label
KindAnswers(label) ==
    IF label = LA THEN {<<KindLine(KindPyBinary, LA)>>}
    ELSE IF label = LB THEN {<<KindLine(KindPyLibrary, LB)>>}
    ELSE IF label = LC THEN {<<KindLine(KindPyLibrary, LC)>>}
    ELSE {<<KindLine(KindCcLibrary, label)>>, <<>>}

\* the sources each node declares: the file label the external system prints
\* and the workspace-relative path of that file
SrcTable(label) ==
    IF label = LA
    THEN << [label |-> <<"/","/","s",":","r",".","p","y">>,
             path |-> <<"s","/","r",".","p","y">>],
            [label |-> <<"/","/","s",":","c","/","c","o","r","e",".","p","y">>,
             path |-> <<"s","/","c","/","c","o","r","e",".","p","y">>] >>
    ELSE IF label = LB
    THEN << [label |-> <<"/","/","c",":","_","_","i","n","i","t","_","_",".","p","y">>,
             path |-> <<"c","/","_","_","i","n","i","t","_","_",".","p","y">>],
            [label |-> <<"/","/","c",":","c","o","r","e",".","p","y">>,
             path |-> <<"c","/","c","o","r","e",".","p","y">>],
            [label |-> <<"/","/","s",":","r",".","p","y">>,
             path |-> <<"s","/","r",".","p","y">>] >>
    ELSE IF label = LC
    THEN << [label |-> <<"@","p","/","/",":","a",".","p","y">>,
             path |-> <<"@","p","/","/",":","a",".","p","y">>] >>
    ELSE <<>>

\* what the external system prints for labels('srcs', label)
SrcsAnswer(label) == [k \in 1..Len(SrcTable(label)) |-> SrcTable(label)[k].label]

SrcPaths(label) == {SrcTable(label)[k].path : k \in 1..Len(SrcTable(label))}

Reverse(s) == [k \in 1..Len(s) |-> s[Len(s) + 1 - k]]

\* what the external system may print for labels('deps', label): any set of at
\* most n labels, listed in ascending or in descending order
DepAnswers(n) ==
    UNION {{Sorted(S), Reverse(Sorted(S))} : S \in {T \in SUBSET Labels : Cardinality(T) <= n}}

RECURSIVE SumLen(_, _)
SumLen(f, D) ==
    IF D = {} THEN 0
    ELSE LET d == CHOOSE x \in D : TRUE IN Len(f[d]) + SumLen(f, D \ {d})

\* declared dependency edges the external system has revealed so far
EdgesOf(deps) == SumLen(deps, DOMAIN deps)

\* what the external system may print for kind('py_.* rule', //...)
TargetAnswers ==
    UNION {{Sorted(S), Reverse(Sorted(S))} : S \in SUBSET WorkspacePyLabels}

WorkspaceAnswer == << <<"/","w">> >>
Cwd == <<"/","w">>

\* the build files of the usual workspace
ExistingFiles ==
    {<<"/","w","/","s","/","B","U","I","L","D",".","b","a","z","e","l">>,
     <<"/","w","/","c","/","B","U","I","L","D">>}

\* the build files present on disk
VARIABLES disk

\* os.path.exists(cand)
PathExists(p) == p \in disk

\* sys.version_info and sys.platform of the interpreter
PyVersion == <<"3",".","1","2">>
SysPlatform == <<"l","i","n","u","x">>

\* requested files
F1 == <<"s","/","r",".","p","y">>
F2 == <<"c","o","r","e",".","p","y">>
F3 == <<"n","/","x",".","p","y">>
F4 == <<"/","w","/","c","/","c","o","r","e",".","p","y">>
Files == {F1, F2, F3, F4}

\* the workspace-relative name of a requested file (the process runs in Cwd)
RelName(f) == IF f = F4 THEN <<"c","/","c","o","r","e",".","p","y">> ELSE f

RECURSIVE ListingOf(_)
ListingOf(fs) ==
    IF Len(fs) = 0 THEN <<>> ELSE <<FileMarker, Head(fs)>> \o ListingOf(Tail(fs))

\* the requests: no file, each file alone, and two files together
FileLists == {<<>>} \cup {<<f>> : f \in Files} \cup {<<F3, F1>>}

\* contents of the list file: well-formed listings of the requests, a marker
\* with no path after it, a path with no marker, a listing with a blank line
\* and an indented path

Listings ==
    {ListingOf(fs) : fs \in FileLists}
        \cup {<<FileMarker>>, <<F1>>, <<Empty, FileMarker, <<" ">> \o F3>>}

\* the files a listing names
ListedFiles(lines) ==
    IF \E fs \in FileLists : lines = ListingOf(fs)
    THEN CHOOSE fs \in FileLists : lines = ListingOf(fs)
    ELSE IF lines = <<Empty, FileMarker, <<" ">> \o F3>> THEN <<F3>>
    ELSE <<>>

ArgNone == <<>>
ArgPlain == << <<"l">> >>
ArgList == << <<"@","l">> >>
Argvs == {ArgNone, ArgPlain, ArgList}

(***************************************************************************)
(* Bazel helpers.                                                          *)
(***************************************************************************)
\* a completed external process: return code and the lines of its stdout
Responses(answer) ==
    {[rc |-> 0, out |-> answer], [rc |-> 3, out |-> answer], [rc |-> 3, out |-> <<>>]}

NonBlank(lines) == SelectSeq(lines, LAMBDA ln : Strip(ln) # Empty)

\* faulty variant: any non-zero return code raises
RaisesOnStatus(res) == res.rc # 0

\* faulty variant: an empty output is taken as an empty result
RaisesNever(res) == FALSE

\* run: raises iff the return code is non-zero and stdout is blank
Raises(res) == res.rc # 0 /\ NonBlank(res.out) = <<>>

MapSeq(s, Op(_)) == [k \in 1..Len(s) |-> Op(s[k])]

\* bazel_query: stripped non-empty lines of the output
bazel_query(res) == MapSeq(NonBlank(res.out), Strip)

\* bazel_info_workspace: the stripped output
bazel_info_workspace(res) ==
    LET lines == bazel_query(res) IN IF Len(lines) = 0 THEN Empty ELSE lines[1]

\* label_kind: first whitespace-separated token of the first line, "" when no line
label_kind(res) ==
    LET lines == bazel_query(res)
    IN  IF Len(lines) = 0 THEN Empty
        ELSE Head(SelectSeq(Split(lines[1], " "), LAMBDA tok : tok # Empty))

\* faulty variant: any classified dependency is kept
IsPyKindNonEmpty(k) == k # Empty

\* k.startswith("py_")
IsPyKind(k) == StartsWith(k, PyPrefix)

IsBinaryKind(k) == StartsWith(k, PyBinaryPrefix)

system_python_platform(p) ==
    IF StartsWith(p, <<"l","i","n","u","x">>) THEN <<"l","i","n","u","x">>
    ELSE IF p = <<"d","a","r","w","i","n">> THEN <<"m","a","c","o","s","x">>
    ELSE IF StartsWith(p, <<"w","i","n">>) THEN <<"w","i","n","d","o","w","s">>
    ELSE p

\* buildfile_for_label: //pkg/sub:target -> /abs/workspace/pkg/sub/BUILD.bazel | BUILD
buildfile_for_label(label, ws) ==
    IF ~StartsWith(label, RootPrefix) THEN Empty
    ELSE LET pkg == Split(Drop(label, 2), ":")[1]
             c1 == PathJoin(ws, pkg, BuildBazel)
             c2 == PathJoin(ws, pkg, BuildPlain)
         IN  IF PathExists(c1) THEN c1 ELSE IF PathExists(c2) THEN c2 ELSE Empty

\* faulty variant: the absolute path is kept
RelativizeAsIs(abs_buildfile, ws) == abs_buildfile

\* relativize_buildfile_path: /abs/workspace/pkg/BUILD.bazel -> //pkg/BUILD.bazel
relativize_buildfile_path(abs_buildfile, ws) ==
    IF abs_buildfile = Empty THEN Empty
    ELSE LET w == NormPath(ws)
             b == NormPath(abs_buildfile)
         IN  IF StartsWith(b, w \o <<"/">>)
             THEN RootPrefix \o RelPath(Cwd, b, w)
             ELSE b

(***************************************************************************)
(* Database assembly.  A Python dict is a sequence of key/value pairs in   *)
(* insertion order, which is the order json.dumps emits.                   *)
(***************************************************************************)
ModIndex(m, mod) == CHOOSE k \in 1..Len(m) : m[k].mod = mod

HasMod(m, mod) == \E k \in 1..Len(m) : m[k].mod = mod

\* d.setdefault(mod, [])
SetDefault(m, mod) == IF HasMod(m, mod) THEN m ELSE Append(m, [mod |-> mod, paths |-> <<>>])

\* module_map.setdefault(mod, []).append(p)
SetDefaultAppend(m, mod, p) ==
    LET m1 == SetDefault(m, mod)
        k == ModIndex(m1, mod)
    IN  [m1 EXCEPT ![k].paths = Append(@, p)]

\* faulty variant: the binary kind keeps the full dotted name
ModuleKeyFull(kind, p) == module_name_from_path(p)

\* module key of one source path of a node of the given kind
ModuleKey(kind, p) ==
    IF IsBinaryKind(kind) THEN Last(Split(module_name_from_path(p), "."))
    ELSE module_name_from_path(p)

\* module map: py_binary shortens to basename, py_library keeps full dotted path
RECURSIVE ModuleMapFrom(_, _, _)
ModuleMapFrom(kind, src_paths, acc) ==
    IF Len(src_paths) = 0 THEN acc
    ELSE ModuleMapFrom(kind, Tail(src_paths),
                       SetDefaultAppend(acc, ModuleKey(kind, Head(src_paths)), Head(src_paths)))

module_map(info) == ModuleMapFrom(info.kind, info.src_paths, <<>>)

\* faulty variant: no membership test before the append
AppendAll(acc, xs) == acc \o xs

\* for x in xs: if x not in acc: acc.append(x)
RECURSIVE AppendNew(_, _)
AppendNew(acc, xs) ==
    IF Len(xs) = 0 THEN acc
    ELSE AppendNew(IF InSeq(Head(xs), acc) THEN acc ELSE Append(acc, Head(xs)), Tail(xs))

\* for mod, paths in srcs_map.items(): setdefault, then append the new paths
RECURSIVE MergeSrcs(_, _)
MergeSrcs(srcs, srcs_map) ==
    IF Len(srcs_map) = 0 THEN srcs
    ELSE LET s1 == SetDefault(srcs, Head(srcs_map).mod)
             k == ModIndex(s1, Head(srcs_map).mod)
         IN  MergeSrcs([s1 EXCEPT ![k].paths = AppendNew(@, Head(srcs_map).paths)],
                       Tail(srcs_map))

HasKey(db, key) == \E k \in 1..Len(db) : db[k].key = key

KeyIndex(db, key) == CHOOSE k \in 1..Len(db) : db[k].key = key

DbKeys(db) == {db[k].key : k \in 1..Len(db)}

Entry(db, key) == db[KeyIndex(db, key)]

\* faulty variant: the platform is left out of a new entry
NewEntryNoPlatform(label_key, buildfile_path) ==
    [key |-> label_key,
     srcs |-> <<>>,
     deps |-> <<>>,
     python_version |-> PyVersion,
     buildfile_path |-> buildfile_path]

NewEntry(label_key, buildfile_path) ==
    [key |-> label_key,
     srcs |-> <<>>,
     deps |-> <<>>,
     python_version |-> PyVersion,
     python_platform |-> system_python_platform(SysPlatform),
     buildfile_path |-> buildfile_path]

\* faulty variant: an entry that exists is replaced by one built from this call
add_entryOverwrite(db, ws, label_key, srcs_map, dep_labels, abs_buildfile_path) ==
    LET ent == [NewEntry(label_key, relativize_buildfile_path(abs_buildfile_path, ws))
                   EXCEPT !.srcs = MergeSrcs(<<>>, srcs_map),
                          !.deps = AppendNew(<<>>, dep_labels)]
    IN  IF HasKey(db, label_key) THEN [db EXCEPT ![KeyIndex(db, label_key)] = ent]
        ELSE Append(db, ent)

\* add_entry(label_key, srcs_map, dep_labels, abs_buildfile_path) on result_db
add_entry(db, ws, label_key, srcs_map, dep_labels, abs_buildfile_path) ==
    LET buildfile_path == relativize_buildfile_path(abs_buildfile_path, ws)
        db1 == IF HasKey(db, label_key) THEN db
               ELSE Append(db, NewEntry(label_key, buildfile_path))
        k == KeyIndex(db1, label_key)
        ent == db1[k]
        bf == IF ent.buildfile_path = Empty THEN buildfile_path ELSE ent.buildfile_path
    IN  [db1 EXCEPT ![k] = [ent EXCEPT !.buildfile_path = bf,
                                       !.srcs = MergeSrcs(ent.srcs, srcs_map),
                                       !.deps = AppendNew(ent.deps, dep_labels)]]

(***************************************************************************)
(* Ownership.                                                              *)
(***************************************************************************)
HasPath(m, path) == \E k \in 1..Len(m) : m[k].path = path

PathIndex(m, path) == CHOOSE k \in 1..Len(m) : m[k].path = path

\* file_to_targets.setdefault(path, []).append(tgt) for every source of tgt
RECURSIVE RecordOwner(_, _, _)
RecordOwner(m, file_labels, tgt) ==
    IF Len(file_labels) = 0 THEN m
    ELSE LET path == file_label_to_path(Head(file_labels))
             m1 == IF HasPath(m, path) THEN m ELSE Append(m, [path |-> path, tgts |-> <<>>])
             k == PathIndex(m1, path)
         IN  RecordOwner([m1 EXCEPT ![k].tgts = Append(@, tgt)], Tail(file_labels), tgt)

\* the path looked up for a requested file
RequestedRel(fp, ws) ==
    LET abs_fp == AbsPath(Cwd, fp)
    IN  IF StartsWith(abs_fp, ws) THEN RelPath(Cwd, abs_fp, ws) ELSE fp

\* owners by the suffix-match fallback, in mapping order
RECURSIVE SuffixOwners(_, _)
SuffixOwners(m, rel) ==
    IF Len(m) = 0 THEN <<>>
    ELSE (IF EndsWith(Head(m).path, rel) THEN Head(m).tgts ELSE <<>>)
             \o SuffixOwners(Tail(m), rel)

\* faulty variant: the suffix matches are added to an exact match
OwnersAlwaysSuffix(m, fp, ws) ==
    LET rel == RequestedRel(fp, ws)
        exact == IF HasPath(m, rel) THEN m[PathIndex(m, rel)].tgts ELSE <<>>
    IN  exact \o SuffixOwners(m, rel)

\* owners of one requested file: the exact match, else the suffix matches
Owners(m, fp, ws) ==
    LET rel == RequestedRel(fp, ws)
        exact == IF HasPath(m, rel) THEN m[PathIndex(m, rel)].tgts ELSE <<>>
    IN  IF Len(exact) > 0 THEN exact ELSE SuffixOwners(m, rel)

\* faulty variant: every line that is not a marker is taken as a file
ParseLinesAnyLine(raw) ==
    SelectSeq(SelectSeq(MapSeq(raw, Strip), LAMBDA ln : ln # Empty), LAMBDA ln : ln # FileMarker)

\* parse_file_list: the line after every "--file" line
ParseLines(raw) ==
    LET lines == SelectSeq(MapSeq(raw, Strip), LAMBDA ln : ln # Empty)
        picks == SelectSeq([k \in 1..Len(lines) |-> k],
                           LAMBDA k : lines[k] = FileMarker /\ k + 1 <= Len(lines))
    IN  [k \in 1..Len(picks) |-> lines[picks[k] + 1]]

(***************************************************************************)
(* State.                                                                  *)
(***************************************************************************)
VARIABLES
    argv,               \* sys.argv[1:]
    listing,            \* lines of the list file
    readable,           \* whether open() of the list file succeeds
    extTargets,         \* answers the external system has given so far:
    extKind,            \*   it answers a repeated query the same way
    extDeps,
    pc,                 \* position of the process
    files,              \* parse_file_list result
    workspace,
    all_py_targets,
    idx,                \* index of the running for loop
    file_to_targets,
    requested_targets,
    label_kind_cache,   \* module-level dict
    info_cache,
    seen,
    topo,
    roots,              \* the sequence the root loop iterates
    stack,              \* frames of dfs / collect_py_target_info
    result_db,
    stdout,             \* JSON values printed
    exit_code,          \* -1 while running
    log,                \* external queries issued, in order
    prev_run,           \* what an earlier launch of the program printed and returned
    applied,            \* arguments of the add_entry calls made on result_db
    db_trace,           \* result_db after each of them
    tracking,           \* whether the statuses of the external processes are recorded
    warned,             \* some query of this launch ended non-zero with output
    failed              \* position in log of the query that ended non-zero with no
                        \*   output, 0 when there is none

env == <<argv, listing, readable, disk>>
ext == <<extTargets, extKind, extDeps>>
proc == <<pc, files, workspace, all_py_targets, idx, file_to_targets, requested_targets,
          label_kind_cache, info_cache, seen, topo, roots, stack, result_db, stdout,
          exit_code, log>>
aux == <<prev_run, applied, db_trace>>
obs == <<tracking, warned, failed>>
vars == <<env, ext, proc, aux, obs>>

Running == -1

\* dict[key] = value
Put(d, key, value) == (key :> value) @@ d

Query(q, label) == [q |-> q, label |-> label]

EmptyOutput(res) == \A k \in 1..Len(res.out) : Strip(res.out[k]) = Empty

\* the observers' record of one completed external process
Observe(res) ==
    /\ warned' = (warned \/ (tracking /\ res.rc # 0 /\ ~EmptyOutput(res)))
    /\ failed' = IF failed = 0 /\ res.rc # 0 /\ EmptyOutput(res) THEN Len(log) + 1 ELSE failed
    /\ tracking' = tracking

FreshProcess ==
    /\ pc = "main"
    /\ files = <<>>
    /\ workspace = Empty
    /\ all_py_targets = <<>>
    /\ idx = 1
    /\ file_to_targets = <<>>
    /\ requested_targets = {}
    /\ label_kind_cache = <<>>
    /\ info_cache = <<>>
    /\ seen = {}
    /\ topo = <<>>
    /\ roots = <<>>
    /\ stack = <<>>
    /\ result_db = <<>>
    /\ stdout = <<>>
    /\ exit_code = Running
    /\ log = <<>>

Init ==
    /\ argv \in Argvs
    /\ listing \in Listings
    /\ readable \in BOOLEAN
    /\ disk = ExistingFiles
    /\ extTargets = <<>>
    /\ extKind = <<>>
    /\ extDeps = <<>>
    /\ FreshProcess
    /\ prev_run = <<>>
    /\ applied = <<>>
    /\ db_trace = <<>>
    /\ tracking = FALSE
    /\ warned = FALSE
    /\ failed = 0

(***************************************************************************)
(* __main__                                                                *)
(***************************************************************************)
Exit(code, printed) ==
    /\ pc' = "exited"
    /\ exit_code' = code
    /\ stdout' = Append(stdout, printed)
    /\ UNCHANGED <<env, aux, obs, ext, files, workspace, all_py_targets, idx, file_to_targets,
                   requested_targets, label_kind_cache, info_cache, seen, topo, roots,
                   stack, result_db, log>>

\* an uncaught RuntimeError of run(): traceback, status 1, nothing printed
Abort(lg) ==
    /\ pc' = "aborted"
    /\ exit_code' = 1
    /\ log' = lg
    /\ UNCHANGED <<env, aux, ext, files, workspace, all_py_targets, idx, file_to_targets,
                   requested_targets, label_kind_cache, info_cache, seen, topo, roots,
                   stack, result_db, stdout>>

UsageNoArgument ==
    /\ pc = "main"
    /\ Len(argv) < 1
    /\ Exit(2, [error |-> "Usage: script.py @/path/to/list.txt"])

UsageNoMarker ==
    /\ pc = "main"
    /\ Len(argv) >= 1
    /\ ~StartsWith(argv[1], <<"@">>)
    /\ Exit(2, [error |-> "Expected an argument starting with @"])

ListUnreadable ==
    /\ pc = "main"
    /\ Len(argv) >= 1
    /\ StartsWith(argv[1], <<"@">>)
    /\ ~readable
    /\ Exit(2, [error |-> "Failed to read file list"])

UsageNoFiles ==
    /\ pc = "main"
    /\ Len(argv) >= 1
    /\ StartsWith(argv[1], <<"@">>)
    /\ readable
    /\ ParseLines(listing) = <<>>
    /\ Exit(2, [error |-> "No files found in list"])

ParseFileList ==
    /\ pc = "main"
    /\ Len(argv) >= 1
    /\ StartsWith(argv[1], <<"@">>)
    /\ readable
    /\ ParseLines(listing) # <<>>
    /\ files' = ParseLines(listing)
    /\ pc' = "workspace"
    /\ UNCHANGED <<env, aux, obs, ext, workspace, all_py_targets, idx, file_to_targets,
                   requested_targets, label_kind_cache, info_cache, seen, topo, roots,
                   stack, result_db, stdout, exit_code, log>>

(***************************************************************************)
(* build_db_for_files: workspace, enumeration, ownership                   *)
(***************************************************************************)
QueryWorkspace ==
    /\ pc = "workspace"
    /\ \E res \in Responses(WorkspaceAnswer) :
          /\ Observe(res)
          /\ LET lg == Append(log, Query("workspace", Empty)) IN
             IF Raises(res) THEN Abort(lg)
             ELSE /\ workspace' = bazel_info_workspace(res)
                  /\ pc' = "enumerate"
                  /\ log' = lg
                  /\ UNCHANGED <<env, aux, ext, files, all_py_targets, idx, file_to_targets,
                                 requested_targets, label_kind_cache, info_cache, seen, topo,
                                 roots, stack, result_db, stdout, exit_code>>

\* every order in which a set can be iterated
RECURSIVE Orderings(_)
Orderings(S) ==
    IF S = {} THEN {<<>>}
    ELSE UNION {{<<x>> \o q : q \in Orderings(S \ {x})} : x \in S}

\* faulty variant: the set is iterated in whatever order the interpreter gives
RootOrdersUnsorted(S) == Orderings(S)

\* sorted(requested_targets)
RootOrders(S) == {Sorted(S)}

\* after the ownership loop: the per-file loop of step 3
EnterResolve == /\ pc' = "resolve" /\ idx' = 1

EnumerateTargets ==
    /\ pc = "enumerate"
    /\ \E ans \in (IF extTargets = <<>> THEN TargetAnswers ELSE {extTargets[1]}) :
       \E res \in Responses(ans) :
          /\ Observe(res)
          /\ LET lg == Append(log, Query("targets", Empty)) IN
             IF Raises(res) THEN Abort(lg)
             ELSE /\ all_py_targets' = bazel_query(res)
                  /\ extTargets' = <<ans>>
                  /\ log' = lg
                  /\ IF Len(bazel_query(res)) = 0 THEN EnterResolve
                     ELSE pc' = "own" /\ idx' = 1
                  /\ UNCHANGED <<env, aux, extKind, extDeps, files, workspace, file_to_targets,
                                 requested_targets, label_kind_cache, info_cache, seen, topo,
                                 roots, stack, result_db, stdout, exit_code>>

OwnerSrcs ==
    /\ pc = "own"
    /\ idx <= Len(all_py_targets)
    /\ LET tgt == all_py_targets[idx]
           lg == Append(log, Query("srcs", tgt))
       IN  \E res \in Responses(SrcsAnswer(tgt)) :
             /\ Observe(res)
             /\ IF Raises(res) THEN Abort(lg)
                ELSE /\ file_to_targets' = RecordOwner(file_to_targets, bazel_query(res), tgt)
                     /\ log' = lg
                     /\ IF idx = Len(all_py_targets) THEN EnterResolve
                        ELSE pc' = pc /\ idx' = idx + 1
                     /\ UNCHANGED <<env, aux, ext, files, workspace, all_py_targets,
                                    requested_targets, label_kind_cache, info_cache, seen,
                                    topo, roots, stack, result_db, stdout, exit_code>>

ResolveFile ==
    /\ pc = "resolve"
    /\ idx <= Len(files)
    /\ LET owners == Owners(file_to_targets, files[idx], workspace)
           req == requested_targets \cup SeqSet(owners)
       IN  /\ requested_targets' = req
           /\ IF idx = Len(files)
              THEN /\ pc' = "dfs"
                   /\ idx' = 1
                   /\ roots' \in RootOrders(req)
              ELSE /\ pc' = pc
                   /\ idx' = idx + 1
                   /\ roots' = roots
    /\ UNCHANGED <<env, aux, obs, ext, files, workspace, all_py_targets, file_to_targets,
                   label_kind_cache, info_cache, seen, topo, stack, result_db, stdout,
                   exit_code, log>>

(***************************************************************************)
(* dfs and collect_py_target_info.  A frame is one activation of dfs; its  *)
(* field `at` is the next statement it executes.                           *)
(***************************************************************************)
Frame(label) ==
    [label |-> label, at |-> "kind", kind |-> Empty, src_paths |-> <<>>,
     dep_labels_all |-> <<>>, py_dep_labels |-> <<>>, j |-> 1]

Top == stack[Len(stack)]

SetTop(f) == [stack EXCEPT ![Len(stack)] = f]

Pop == SubSeq(stack, 1, Len(stack) - 1)

\* faulty variant: `if k:` in place of `if k is not None:`
CacheHitTruthy(cache, label) == label \in DOMAIN cache /\ cache[label] # Empty

\* faulty variant: the cache is never consulted
CacheHitNever(cache, label) == FALSE

\* label_kind_cache.get(label) is not None
CacheHit(cache, label) == label \in DOMAIN cache

\* the variables a traversal step leaves alone
DfsFrame ==
    UNCHANGED <<env, aux, obs, extTargets, files, workspace, all_py_targets, file_to_targets,
                requested_targets, roots, result_db, stdout, exit_code, pc>>

\* faulty variant: no visited set and no info cache
CallNoMemo(stk, label) ==
    /\ seen' = seen \cup {label}
    /\ stack' = Append(stk, Frame(label))

\* faulty variant: dfs without the visited-set check
CallNoSeen(stk, label) ==
    /\ seen' = seen \cup {label}
    /\ stack' = Append(stk,
           IF label \in DOMAIN info_cache
           THEN [Frame(label) EXCEPT !.at = "recurse",
                                     !.kind = info_cache[label].kind,
                                     !.src_paths = info_cache[label].src_paths,
                                     !.py_dep_labels = info_cache[label].deps_labels]
           ELSE Frame(label))

\* dfs(label) up to its first external query: return at once when seen, else
\* mark and enter collect_py_target_info, which returns a cached info at once
Call(stk, label) ==
    IF label \in seen
    THEN /\ stack' = stk
         /\ seen' = seen
    ELSE /\ seen' = seen \cup {label}
         /\ stack' = Append(stk,
                IF label \in DOMAIN info_cache
                THEN [Frame(label) EXCEPT !.at = "recurse",
                                          !.kind = info_cache[label].kind,
                                          !.src_paths = info_cache[label].src_paths,
                                          !.py_dep_labels = info_cache[label].deps_labels]
                ELSE Frame(label))

\* for t in sorted(requested_targets): dfs(t)
DfsRoot ==
    /\ pc = "dfs"
    /\ stack = <<>>
    /\ idx <= Len(roots)
    /\ Call(stack, roots[idx])
    /\ idx' = idx + 1
    /\ DfsFrame
    /\ UNCHANGED <<extKind, extDeps, label_kind_cache, info_cache, topo, log>>

\* kind = cached_label_kind(target_label)
CollectKind ==
    /\ pc = "dfs"
    /\ stack # <<>>
    /\ Top.at = "kind"
    /\ LET label == Top.label IN
       IF CacheHit(label_kind_cache, label)
       THEN /\ stack' = SetTop([Top EXCEPT !.at = "srcs", !.kind = label_kind_cache[label]])
            /\ UNCHANGED <<extKind, label_kind_cache, log, pc, exit_code, obs>>
       ELSE \E ans \in (IF label \in DOMAIN extKind THEN {extKind[label]} ELSE KindAnswers(label)) :
            \E res \in Responses(ans) :
               /\ Observe(res)
               /\ log' = Append(log, Query("kind", label))
               /\ IF Raises(res)
                  THEN /\ pc' = "aborted"
                       /\ exit_code' = 1
                       /\ UNCHANGED <<stack, extKind, label_kind_cache>>
                  ELSE /\ stack' = SetTop([Top EXCEPT !.at = "srcs", !.kind = label_kind(res)])
                       /\ label_kind_cache' = Put(label_kind_cache, label, label_kind(res))
                       /\ extKind' = Put(extKind, label, ans)
                       /\ UNCHANGED <<pc, exit_code>>
    /\ UNCHANGED <<env, aux, extTargets, extDeps, files, workspace, all_py_targets, idx,
                   file_to_targets, requested_targets, info_cache, seen, topo, roots,
                   result_db, stdout>>

\* file_labels = bazel_query(labels('srcs', target)); src_paths
CollectSrcs ==
    /\ pc = "dfs"
    /\ stack # <<>>
    /\ Top.at = "srcs"
    /\ \E res \in Responses(SrcsAnswer(Top.label)) :
          /\ Observe(res)
          /\ log' = Append(log, Query("srcs", Top.label))
          /\ IF Raises(res)
             THEN /\ pc' = "aborted"
                  /\ exit_code' = 1
                  /\ stack' = stack
             ELSE /\ stack' = SetTop([Top EXCEPT !.at = "deps",
                                       !.src_paths = MapSeq(bazel_query(res), file_label_to_path)])
                  /\ UNCHANGED <<pc, exit_code>>
    /\ UNCHANGED <<env, aux, ext, files, workspace, all_py_targets, idx, file_to_targets,
                   requested_targets, label_kind_cache, info_cache, seen, topo, roots,
                   result_db, stdout>>

\* dep_labels_all = bazel_query(labels('deps', target))
CollectDeps ==
    /\ pc = "dfs"
    /\ stack # <<>>
    /\ Top.at = "deps"
    /\ \E ans \in (IF Top.label \in DOMAIN extDeps THEN {extDeps[Top.label]} ELSE DepAnswers(MaxEdges - EdgesOf(extDeps))) :
       \E res \in Responses(ans) :
          /\ Observe(res)
          /\ log' = Append(log, Query("deps", Top.label))
          /\ IF Raises(res)
             THEN /\ pc' = "aborted"
                  /\ exit_code' = 1
                  /\ UNCHANGED <<stack, extDeps>>
             ELSE /\ stack' = SetTop([Top EXCEPT !.at = "filter", !.j = 1,
                                                 !.dep_labels_all = bazel_query(res)])
                  /\ extDeps' = Put(extDeps, Top.label, ans)
                  /\ UNCHANGED <<pc, exit_code>>
    /\ UNCHANGED <<env, aux, extTargets, extKind, files, workspace, all_py_targets, idx,
                   file_to_targets, requested_targets, label_kind_cache, info_cache, seen,
                   topo, roots, result_db, stdout>>

\* for dl in dep_labels_all: k = cached_label_kind(dl); keep dl when k starts with py_
CollectFilter ==
    /\ pc = "dfs"
    /\ stack # <<>>
    /\ Top.at = "filter"
    /\ Top.j <= Len(Top.dep_labels_all)
    /\ LET dl == Top.dep_labels_all[Top.j]
           Kept(k) == [Top EXCEPT !.j = @ + 1,
                                  !.py_dep_labels = IF IsPyKind(k) THEN Append(@, dl) ELSE @]
       IN  IF CacheHit(label_kind_cache, dl)
           THEN /\ stack' = SetTop(Kept(label_kind_cache[dl]))
                /\ UNCHANGED <<extKind, label_kind_cache, log, pc, exit_code, obs>>
           ELSE \E ans \in (IF dl \in DOMAIN extKind THEN {extKind[dl]} ELSE KindAnswers(dl)) :
                \E res \in Responses(ans) :
                   /\ Observe(res)
                   /\ log' = Append(log, Query("kind", dl))
                   /\ IF Raises(res)
                      THEN /\ pc' = "aborted"
                           /\ exit_code' = 1
                           /\ UNCHANGED <<stack, extKind, label_kind_cache>>
                      ELSE /\ stack' = SetTop(Kept(label_kind(res)))
                           /\ label_kind_cache' = Put(label_kind_cache, dl, label_kind(res))
                           /\ extKind' = Put(extKind, dl, ans)
                           /\ UNCHANGED <<pc, exit_code>>
    /\ UNCHANGED <<env, aux, extTargets, extDeps, files, workspace, all_py_targets, idx,
                   file_to_targets, requested_targets, info_cache, seen, topo, roots,
                   result_db, stdout>>

InfoOf(f) == [kind |-> f.kind, src_paths |-> f.src_paths, deps_labels |-> f.py_dep_labels]

\* cache[target_label] = info; return info
CollectStore ==
    /\ pc = "dfs"
    /\ stack # <<>>
    /\ Top.at = "filter"
    /\ Top.j > Len(Top.dep_labels_all)
    /\ info_cache' = Put(info_cache, Top.label, InfoOf(Top))
    /\ stack' = SetTop([Top EXCEPT !.at = "recurse", !.j = 1])
    /\ DfsFrame
    /\ UNCHANGED <<extKind, extDeps, idx, label_kind_cache, seen, topo, log>>

\* faulty variant: the dependencies are not traversed
DfsRecurseSkip ==
    /\ pc = "dfs"
    /\ stack # <<>>
    /\ Top.at = "recurse"
    /\ Top.j <= Len(Top.py_dep_labels)
    /\ stack' = SetTop([Top EXCEPT !.j = @ + 1])
    /\ DfsFrame
    /\ UNCHANGED <<extKind, extDeps, idx, label_kind_cache, info_cache, seen, topo, log>>

\* faulty variant: a dependency is entered even when it is already visited
DfsRecurseReenter ==
    /\ pc = "dfs"
    /\ stack # <<>>
    /\ Top.at = "recurse"
    /\ Top.j <= Len(Top.py_dep_labels)
    /\ CallNoSeen(SetTop([Top EXCEPT !.j = @ + 1]), Top.py_dep_labels[Top.j])
    /\ DfsFrame
    /\ UNCHANGED <<extKind, extDeps, idx, label_kind_cache, info_cache, topo, log>>

\* faulty variant: only the first dependency of a node is traversed
DfsRecurseFirstOnly ==
    /\ pc = "dfs"
    /\ stack # <<>>
    /\ Top.at = "recurse"
    /\ Top.j <= Len(Top.py_dep_labels)
    /\ Call(SetTop([Top EXCEPT !.j = Len(Top.py_dep_labels) + 1]), Top.py_dep_labels[Top.j])
    /\ DfsFrame
    /\ UNCHANGED <<extKind, extDeps, idx, label_kind_cache, info_cache, topo, log>>

\* for d in info["deps_labels"]: dfs(d)
DfsRecurse ==
    /\ pc = "dfs"
    /\ stack # <<>>
    /\ Top.at = "recurse"
    /\ Top.j <= Len(Top.py_dep_labels)
    /\ Call(SetTop([Top EXCEPT !.j = @ + 1]), Top.py_dep_labels[Top.j])
    /\ DfsFrame
    /\ UNCHANGED <<extKind, extDeps, idx, label_kind_cache, info_cache, topo, log>>

\* faulty variant: the node is emitted before the loop over its dependencies ends
DfsReturnEarly ==
    /\ pc = "dfs"
    /\ stack # <<>>
    /\ Top.at = "recurse"
    /\ topo' = Append(topo, Top.label)
    /\ stack' = Pop
    /\ DfsFrame
    /\ UNCHANGED <<extKind, extDeps, idx, label_kind_cache, info_cache, seen, log>>

\* topo.append(label); return
DfsReturn ==
    /\ pc = "dfs"
    /\ stack # <<>>
    /\ Top.at = "recurse"
    /\ Top.j > Len(Top.py_dep_labels)
    /\ topo' = Append(topo, Top.label)
    /\ stack' = Pop
    /\ DfsFrame
    /\ UNCHANGED <<extKind, extDeps, idx, label_kind_cache, info_cache, seen, log>>

DfsDone ==
    /\ pc = "dfs"
    /\ stack = <<>>
    /\ idx > Len(roots)
    /\ pc' = "assemble"
    /\ idx' = 1
    /\ UNCHANGED <<env, aux, obs, ext, files, workspace, all_py_targets, file_to_targets,
                   requested_targets, label_kind_cache, info_cache, seen, topo, roots,
                   stack, result_db, stdout, exit_code, log>>

(***************************************************************************)
(* Assembly and output.                                                    *)
(***************************************************************************)
\* for label in topo: module map, build file, add_entry
Assemble ==
    /\ pc = "assemble"
    /\ idx <= Len(topo)
    /\ LET label == topo[idx]
           info == info_cache[label]
       IN  result_db' = add_entry(result_db, workspace, label, module_map(info),
                                  info.deps_labels, buildfile_for_label(label, workspace))
    /\ idx' = idx + 1
    /\ UNCHANGED <<env, aux, obs, ext, pc, files, workspace, all_py_targets, file_to_targets,
                   requested_targets, label_kind_cache, info_cache, seen, topo, roots,
                   stack, stdout, exit_code, log>>

\* faulty variant: an empty database is reported as an error
EmitOrFail ==
    /\ pc = "assemble"
    /\ idx > Len(topo)
    /\ IF result_db = <<>> THEN Exit(2, [error |-> "No targets found"])
       ELSE Exit(0, [db |-> result_db, root |-> workspace])

\* faulty variant: the requested files are printed with the database
EmitEcho ==
    /\ pc = "assemble"
    /\ idx > Len(topo)
    /\ Exit(0, [db |-> result_db, root |-> workspace, files |-> files])

\* print(json.dumps({"db": result_db, "root": workspace}))
Emit ==
    /\ pc = "assemble"
    /\ idx > Len(topo)
    /\ Exit(0, [db |-> result_db, root |-> workspace])

Next ==
    \/ UsageNoArgument
    \/ UsageNoMarker
    \/ ListUnreadable
    \/ UsageNoFiles
    \/ ParseFileList
    \/ QueryWorkspace
    \/ EnumerateTargets
    \/ OwnerSrcs
    \/ ResolveFile
    \/ DfsRoot
    \/ CollectKind
    \/ CollectSrcs
    \/ CollectDeps
    \/ CollectFilter
    \/ CollectStore
    \/ DfsRecurse
    \/ DfsReturn
    \/ DfsDone
    \/ Assemble
    \/ Emit

Spec == Init /\ [][Next]_vars

(***************************************************************************)
(* A second launch of the program on the same invocation, against the same *)
(* external system.                                                        *)
(***************************************************************************)
Relaunch ==
    /\ pc = "exited"
    /\ prev_run = <<>>
    /\ prev_run' = << [out |-> stdout, code |-> exit_code, warned |-> warned] >>
    /\ pc' = "main"
    /\ files' = <<>>
    /\ workspace' = Empty
    /\ all_py_targets' = <<>>
    /\ idx' = 1
    /\ file_to_targets' = <<>>
    /\ requested_targets' = {}
    /\ label_kind_cache' = <<>>
    /\ info_cache' = <<>>
    /\ seen' = {}
    /\ topo' = <<>>
    /\ roots' = <<>>
    /\ stack' = <<>>
    /\ result_db' = <<>>
    /\ stdout' = <<>>
    /\ exit_code' = Running
    /\ log' = <<>>
    /\ warned' = FALSE
    /\ UNCHANGED <<env, ext, applied, db_trace, tracking, failed>>

NextTwice == Next \/ Relaunch

SpecTwice == Init /\ [][NextTwice]_vars

(***************************************************************************)
(* A second call of build_db_for_files in the process that made the first, *)
(* as a caller that imports the module makes it: the locals of the         *)
(* function are new, the module global label_kind_cache is the one the     *)
(* first call filled.                                                      *)
(***************************************************************************)
Rerun ==
    /\ pc = "exited"
    /\ exit_code = 0
    /\ files # <<>>
    /\ prev_run = <<>>
    /\ prev_run' = << [out |-> stdout, code |-> exit_code, warned |-> warned, log |-> log] >>
    /\ pc' = "workspace"
    /\ workspace' = Empty
    /\ all_py_targets' = <<>>
    /\ idx' = 1
    /\ file_to_targets' = <<>>
    /\ requested_targets' = {}
    /\ info_cache' = <<>>
    /\ seen' = {}
    /\ topo' = <<>>
    /\ roots' = <<>>
    /\ stack' = <<>>
    /\ result_db' = <<>>
    /\ stdout' = <<>>
    /\ exit_code' = Running
    /\ log' = <<>>
    /\ UNCHANGED <<env, ext, files, label_kind_cache, applied, db_trace, obs>>

NextRerun == Next \/ Rerun

InitRerun ==
    /\ argv \in Argvs
    /\ listing \in {ListingOf(<<F1>>), <<FileMarker>>}
    /\ readable \in BOOLEAN
    /\ disk = ExistingFiles
    /\ extTargets = <<>>
    /\ extKind = <<>>
    /\ extDeps = <<>>
    /\ FreshProcess
    /\ prev_run = <<>>
    /\ applied = <<>>
    /\ db_trace = <<>>
    /\ tracking = FALSE
    /\ warned = FALSE
    /\ failed = 0

SpecRerun == InitRerun /\ [][NextRerun]_vars

(***************************************************************************)
(* A second launch of the program against the same external system with a  *)
(* varied list file: the files permuted, a file repeated, or a file added. *)
(***************************************************************************)
VariedLists(lines) ==
    IF lines = ListingOf(<<F3, F1>>) THEN {ListingOf(<<F1, F3>>)}
    ELSE IF lines = ListingOf(<<F1>>)
    THEN {ListingOf(<<F1, F1>>), ListingOf(<<F1, F4>>)}
    ELSE IF lines = ListingOf(<<F4>>) THEN {ListingOf(<<F4, F1>>)}
    ELSE {}

RelaunchVaried ==
    /\ pc = "exited"
    /\ prev_run = <<>>
    /\ listing' \in VariedLists(listing)
    /\ prev_run' = << [out |-> stdout, code |-> exit_code, warned |-> warned,
                       listing |-> listing, requested |-> requested_targets] >>
    /\ pc' = "main"
    /\ files' = <<>>
    /\ workspace' = Empty
    /\ all_py_targets' = <<>>
    /\ idx' = 1
    /\ file_to_targets' = <<>>
    /\ requested_targets' = {}
    /\ label_kind_cache' = <<>>
    /\ info_cache' = <<>>
    /\ seen' = {}
    /\ topo' = <<>>
    /\ roots' = <<>>
    /\ stack' = <<>>
    /\ result_db' = <<>>
    /\ stdout' = <<>>
    /\ exit_code' = Running
    /\ log' = <<>>
    /\ UNCHANGED <<argv, readable, disk, ext, applied, db_trace, obs>>

NextVaried == Next \/ RelaunchVaried

InitVaried ==
    /\ argv \in Argvs
    /\ listing \in {ListingOf(<<F1>>), ListingOf(<<F4>>), ListingOf(<<F3, F1>>), <<FileMarker>>}
    /\ readable \in BOOLEAN
    /\ disk = ExistingFiles
    /\ extTargets = <<>>
    /\ extKind = <<>>
    /\ extDeps = <<>>
    /\ FreshProcess
    /\ prev_run = <<>>
    /\ applied = <<>>
    /\ db_trace = <<>>
    /\ tracking = FALSE
    /\ warned = FALSE
    /\ failed = 0

SpecVaried == InitVaried /\ [][NextVaried]_vars

(***************************************************************************)
(* Two launches for one request, with the statuses of the external         *)
(* processes recorded.                                                     *)
(***************************************************************************)
InitWarn ==
    /\ argv \in Argvs
    /\ listing \in {ListingOf(<<F1>>), <<FileMarker>>}
    /\ readable \in BOOLEAN
    /\ disk = ExistingFiles
    /\ extTargets = <<>>
    /\ extKind = <<>>
    /\ extDeps = <<>>
    /\ FreshProcess
    /\ prev_run = <<>>
    /\ applied = <<>>
    /\ db_trace = <<>>
    /\ tracking = TRUE
    /\ warned = FALSE
    /\ failed = 0

SpecWarn == InitWarn /\ [][NextTwice]_vars

(***************************************************************************)
(* One launch for one request, in workspaces that differ in the build      *)
(* files present.                                                          *)
(***************************************************************************)
BuildS == <<"/","w","/","s","/","B","U","I","L","D">>
BuildBazelS == <<"/","w","/","s","/","B","U","I","L","D",".","b","a","z","e","l">>

Disks == {ExistingFiles, {}, {BuildS}, {BuildS, BuildBazelS}}

InitDisk ==
    /\ argv \in Argvs
    /\ listing \in {ListingOf(<<F1>>), <<FileMarker>>}
    /\ readable \in BOOLEAN
    /\ disk \in Disks
    /\ extTargets = <<>>
    /\ extKind = <<>>
    /\ extDeps = <<>>
    /\ FreshProcess
    /\ prev_run = <<>>
    /\ applied = <<>>
    /\ db_trace = <<>>
    /\ tracking = FALSE
    /\ warned = FALSE
    /\ failed = 0

SpecDisk == InitDisk /\ [][Next]_vars

(***************************************************************************)
(* add_entry on its own: repeated calls with arguments drawn from a small  *)
(* set, on the database the earlier calls left.                            *)
(***************************************************************************)
MaxMerges == 3

P1 == <<"s","/","r",".","p","y">>
P2 == <<"t","/","r",".","p","y">>

MergeInputs ==
    [label : {LA, LB},
     info : {[kind |-> k, src_paths |-> <<P1, P1>>, deps_labels |-> <<LB, LB>>]
                : k \in {KindPyBinary, KindPyLibrary}}
            \cup {[kind |-> k, src_paths |-> <<P1, P2>>, deps_labels |-> <<LC, LB>>]
                : k \in {KindPyBinary, KindPyLibrary}},
     abs_buildfile_path : {Empty, <<"/","w","/","s","/","B","U","I","L","D",".","b","a","z","e","l">>,
                           <<"/","w","/","t","/","B","U","I","L","D">>}]

InitMerge ==
    /\ argv = ArgList
    /\ listing = <<>>
    /\ readable = TRUE
    /\ disk = ExistingFiles
    /\ extTargets = <<>>
    /\ extKind = <<>>
    /\ extDeps = <<>>
    /\ pc = "merge"
    /\ files = <<>>
    /\ workspace = <<"/","w">>
    /\ all_py_targets = <<>>
    /\ idx = 1
    /\ file_to_targets = <<>>
    /\ requested_targets = {}
    /\ label_kind_cache = <<>>
    /\ info_cache = <<>>
    /\ seen = {}
    /\ topo = <<>>
    /\ roots = <<>>
    /\ stack = <<>>
    /\ result_db = <<>>
    /\ stdout = <<>>
    /\ exit_code = Running
    /\ log = <<>>
    /\ prev_run = <<>>
    /\ applied = <<>>
    /\ db_trace = <<>>
    /\ tracking = FALSE
    /\ warned = FALSE
    /\ failed = 0

MergeStep ==
    /\ pc = "merge"
    /\ Len(applied) < MaxMerges
    /\ \E a \in MergeInputs :
          /\ result_db' = add_entry(result_db, workspace, a.label, module_map(a.info),
                                     a.info.deps_labels, a.abs_buildfile_path)
          /\ applied' = Append(applied, a)
          /\ db_trace' = Append(db_trace, result_db')
    /\ UNCHANGED <<env, ext, pc, files, workspace, all_py_targets, idx, file_to_targets,
                   requested_targets, label_kind_cache, info_cache, seen, topo, roots,
                   stack, stdout, exit_code, log, prev_run, obs>>

SpecMerge == InitMerge /\ [][MergeStep]_vars

(***************************************************************************)
(* Properties.                                                             *)
(***************************************************************************)
Count(q, label) == Cardinality({k \in 1..Len(log) : log[k] = Query(q, label)})

Succeeded == pc = "exited" /\ exit_code = 0

\* the external system classifies the label as a Python rule
PyAnswer(label, ans) ==
    ans \in {<<KindLine(KindPyBinary, label)>>, <<KindLine(KindPyLibrary, label)>>}

IsPyLabel(label) == label \in DOMAIN extKind /\ PyAnswer(label, extKind[label])

\* nodes whose declared dependency list names the label
Dependents(label) == {n \in DOMAIN extDeps : InSeq(label, extDeps[n])}

\* identifiers met during the run: traversed, or declared by a traversed node
Encountered ==
    seen \cup UNION {SeqSet(extDeps[n]) : n \in seen \cap DOMAIN extDeps}

\* C1: within one run the kind query is issued at most once per identifier,
\* whatever the order of the probes and also when the query returned no result.
C1_KindQueryAtMostOnce == \A l \in Labels : Count("kind", l) <= 1

\* C1 witness: a finished run in which an identifier whose kind query returned
\* nothing was probed for two nodes, and a root was probed again as a dependency.
C1_Witness ==
    /\ Succeeded
    /\ \E l \in DOMAIN label_kind_cache :
          label_kind_cache[l] = Empty /\ Cardinality(Dependents(l)) >= 2
    /\ \E r \in requested_targets : Dependents(r) # {}

\* C2: at every point of a run the kind of an identifier has been queried only
\* if the identifier was encountered (traversed, or named in the declared
\* dependency list of a traversed node), and never twice; at the end of a
\* successful run every identifier encountered has had its kind queried exactly
\* once, so the number of kind queries is the number of identifiers encountered.
C2_KindQueriesEqualEncountered ==
    /\ \A l \in Labels : Count("kind", l) <= (IF l \in Encountered THEN 1 ELSE 0)
    /\ Succeeded =>
          /\ \A l \in Labels : Count("kind", l) = (IF l \in Encountered THEN 1 ELSE 0)
          /\ Cardinality({k \in 1..Len(log) : log[k].q = "kind"}) = Cardinality(Encountered)

\* C2 witness: a finished run that met at least three identifiers, one of them
\* never traversed and one of them a root that is also a declared dependency.
C2_Witness ==
    /\ Succeeded
    /\ Cardinality(Encountered) >= 3
    /\ Encountered \ seen # {}
    /\ \E r \in requested_targets : Dependents(r) # {}

\* C3: within one run labels('deps', X) is issued at most once for every X.
C3_DepsQueryAtMostOnce == \A l \in Labels : Count("deps", l) <= 1

\* C3 witness: a finished run in which a node was reached from two nodes and a
\* node lies on a dependency cycle through itself.
C3_Witness ==
    /\ Succeeded
    /\ \E l \in seen :
          Cardinality({n \in DOMAIN info_cache : InSeq(l, info_cache[n].deps_labels)}) >= 2
    /\ \E l \in seen : InSeq(l, info_cache[l].deps_labels)

\* Python-kind dependency edges of a node, as the external system declares them
PyEdges(n) ==
    IF n \in DOMAIN extDeps THEN {d \in SeqSet(extDeps[n]) : IsPyLabel(d)} ELSE {}

RECURSIVE Reach(_)
Reach(S) ==
    LET T == S \cup UNION {PyEdges(n) : n \in S}
    IN  IF T = S THEN S ELSE Reach(T)

\* the enumerated nodes that declare the file under exactly this path
ExactOwners(rel) == {t \in SeqSet(extTargets[1]) : rel \in SrcPaths(t)}

\* the enumerated nodes that own the file: those declaring its path, or, when
\* there is none, those declaring a path that ends with it
OwnersOfFile(rel) ==
    IF ExactOwners(rel) # {} THEN ExactOwners(rel)
    ELSE {t \in SeqSet(extTargets[1]) : \E p \in SrcPaths(t) : EndsWith(p, rel)}

\* the root nodes: the owners of the requested files
OwnersOfRequested ==
    IF extTargets = <<>> THEN {}
    ELSE UNION {OwnersOfFile(RelName(ListedFiles(listing)[k])) :
                    k \in 1..Len(ListedFiles(listing))}

Output == stdout[1]

\* C4: the keys of the output database are exactly the owners of the requested
\* files and every node reachable from them through Python-kind dependency
\* edges; each entry's deps are the node's direct Python-kind dependencies.
C4_KeysAreClosureDepsAreDirect ==
    Succeeded =>
        /\ DbKeys(Output.db) = Reach(OwnersOfRequested)
        /\ Len(Output.db) = Cardinality(DbKeys(Output.db))
        /\ \A k \in 1..Len(Output.db) :
              SeqSet(Output.db[k].deps) = PyEdges(Output.db[k].key)

\* C4 witness: a finished run for a file owned by one node a, where a depends
\* on b and b on c, c is no direct dependency of a, and all three have entries.
C4_Witness ==
    /\ Succeeded
    /\ \E a \in Labels, b \in Labels, c \in Labels :
          /\ Cardinality({a, b, c}) = 3
          /\ OwnersOfRequested = {a}
          /\ b \in PyEdges(a) /\ c \in PyEdges(b) /\ c \notin PyEdges(a)
          /\ {a, b, c} \subseteq DbKeys(Output.db)
          /\ InSeq(b, Entry(Output.db, a).deps)
          /\ ~InSeq(c, Entry(Output.db, a).deps)
          /\ InSeq(c, Entry(Output.db, b).deps)

NonPyLabels == {l \in DOMAIN extKind : ~PyAnswer(l, extKind[l])}

DepsOnlyPython(db) ==
    \A k \in 1..Len(db) : \A d \in SeqSet(db[k].deps) : IsPyLabel(d)

\* C5: deps of every database entry holds only identifiers of a Python kind; a
\* dependency of another kind, or of no kind, is never listed and never traversed.
C5_DepsOnlyPythonKind ==
    /\ DepsOnlyPython(result_db)
    /\ Succeeded => DepsOnlyPython(Output.db)
    /\ \A l \in NonPyLabels :
          /\ l \notin seen
          /\ l \notin DOMAIN info_cache
          /\ l \notin DbKeys(result_db)
          /\ Count("deps", l) = 0

\* C5 witness: a finished run with a node that declares a Python-kind and a
\* non-Python-kind dependency and whose entry lists the former only.
C5_Witness ==
    /\ Succeeded
    /\ \E n \in DbKeys(Output.db) : \E x \in NonPyLabels, y \in Labels :
          /\ extKind[x] # <<>>
          /\ InSeq(x, extDeps[n]) /\ InSeq(y, extDeps[n]) /\ IsPyLabel(y)
          /\ Entry(Output.db, n).deps = <<y>>

\* the srcs mapping each node of the workspace must get: LA is a binary, LB
\* and LC are libraries
ExpectedSrcs(label) ==
    IF label = LA
    THEN << [mod |-> <<"r">>, paths |-> << <<"s","/","r",".","p","y">> >>],
            [mod |-> <<"c","o","r","e">>,
             paths |-> << <<"s","/","c","/","c","o","r","e",".","p","y">> >>] >>
    ELSE IF label = LB
    THEN << [mod |-> <<"c">>,
             paths |-> << <<"c","/","_","_","i","n","i","t","_","_",".","p","y">> >>],
            [mod |-> <<"c",".","c","o","r","e">>,
             paths |-> << <<"c","/","c","o","r","e",".","p","y">> >>],
            [mod |-> <<"s",".","r">>, paths |-> << <<"s","/","r",".","p","y">> >>] >>
    ELSE << [mod |-> <<"@","p",".",".",":","a">>,
             paths |-> << <<"@","p","/","/",":","a",".","p","y">> >>] >>

\* C8: a binary node keys each source by the last component of its dotted
\* module name, any other node by the full dotted name, and a package
\* __init__.py by the dotted name of the package.
C8_ModuleKeyRule ==
    /\ ModuleKey(KindPyBinary, <<"s","c","r","i","p","t","s","/","r","u","n","_","r","e","p","o","r","t",".","p","y">>)
           = <<"r","u","n","_","r","e","p","o","r","t">>
    /\ ModuleKey(KindPyLibrary, <<"c","l","i","c","k","/","c","o","r","e",".","p","y">>)
           = <<"c","l","i","c","k",".","c","o","r","e">>
    /\ ModuleKey(KindPyLibrary, <<"p","l","u","g","i","n","s","/","_","_","i","n","i","t","_","_",".","p","y">>)
           = <<"p","l","u","g","i","n","s">>
    /\ \A k \in 1..Len(result_db) : result_db[k].srcs = ExpectedSrcs(result_db[k].key)
    /\ Succeeded =>
          \A k \in 1..Len(Output.db) : Output.db[k].srcs = ExpectedSrcs(Output.db[k].key)

\* C8 witness: a finished run whose database holds the binary and a library
\* with a package __init__.py.
C8_Witness ==
    /\ Succeeded
    /\ {LA, LB} \subseteq DbKeys(Output.db)
    /\ Entry(Output.db, LA).srcs[1].mod = <<"r">>
    /\ Entry(Output.db, LB).srcs[1].mod = <<"c">>

WorkspaceRoot == <<"/","w">>

\* C9: when no node owns a requested file the run succeeds with an empty db
\* and the workspace root; nothing is traversed and no error is raised.
C9_UnmatchedFileEmptyDb ==
    (files # <<>> /\ extTargets # <<>> /\ OwnersOfRequested = {}) =>
        /\ seen = {} /\ topo = <<>> /\ stack = <<>> /\ result_db = <<>>
        /\ \A k \in 1..Len(log) : log[k].q \notin {"kind", "deps"}
        /\ pc = "aborted" => Last(log).q = "srcs"
        /\ pc = "exited" =>
              /\ exit_code = 0
              /\ stdout = << [db |-> <<>>, root |-> WorkspaceRoot] >>

\* C9 witness: a finished run for the file no node declares, in a workspace
\* that has Python nodes.
C9_Witness ==
    /\ pc = "exited"
    /\ files = <<F3>>
    /\ Len(all_py_targets) = 2
    /\ stdout # <<>>

\* the invocation is one of the usage errors
UsageCase ==
    \/ Len(argv) = 0
    \/ argv[1][1] # "@"
    \/ readable /\ ListedFiles(listing) = <<>>

\* C10: with no argument, an argument not starting with '@' or a list naming no
\* file, the program prints a structure whose only field is error, exits with
\* status 2 and issues no external query.
C10_UsageError ==
    /\ UsageCase /\ pc = "main" => log = <<>> /\ stdout = <<>>
    /\ UsageCase /\ pc # "main" =>
          /\ pc = "exited"
          /\ exit_code = 2
          /\ Len(stdout) = 1
          /\ DOMAIN stdout[1] = {"error"}
          /\ log = <<>>

\* C10 witness: the program has exited on a list file whose only line is a
\* path without the marker.
C10_Witness ==
    /\ pc = "exited"
    /\ argv = ArgList /\ readable /\ listing = <<F1>>
    /\ exit_code = 2

\* C6: two launches with the same invocation and the same external responses
\* print the same structure, key order and list order included, and return
\* the same status.
C6_Deterministic ==
    (prev_run # <<>> /\ pc = "exited") =>
        /\ stdout = prev_run[1].out
        /\ exit_code = prev_run[1].code

\* C6 witness: the second launch has finished with a database of two roots.
C6_Witness ==
    /\ prev_run # <<>>
    /\ Succeeded
    /\ Cardinality(requested_targets) >= 2
    /\ Len(Output.db) >= 2

NoRepeat(q) == \A i \in 1..Len(q) : \A j \in 1..Len(q) : q[i] = q[j] => i = j

\* C7: a call of add_entry with the arguments of an earlier call leaves the
\* database as it was.
C7_MergeIdempotent ==
    \A k \in 1..Len(applied) : \A m \in 1..Len(applied) :
        (k < m /\ applied[k] = applied[m]) => db_trace[m] = db_trace[m - 1]

\* C7 witness: the same arguments, with a repeated path and a repeated
\* dependency, were applied twice in a row to a database that already held
\* another entry; the entry lists each path and each dependency once.
C7_Witness ==
    /\ Len(applied) = 3
    /\ applied[2] = applied[3]
    /\ applied[1].label # applied[2].label
    /\ applied[2].info.src_paths = <<P1, P1>>
    /\ applied[2].info.deps_labels = <<LB, LB>>
    /\ LET ent == Entry(result_db, applied[2].label)
       IN  /\ NoRepeat(ent.deps)
           /\ \A k \in 1..Len(ent.srcs) : NoRepeat(ent.srcs[k].paths)

\* C11: a query that ends with a non-zero status and output does not stop the
\* run (a run stops only at a query that ended non-zero without output), and a
\* launch in which such queries occurred prints the same structure and returns
\* the same status as a launch with the same answers in which none occurred.
C11_WarningTolerated ==
    /\ pc = "aborted" => failed = Len(log) /\ failed # 0
    /\ (prev_run # <<>> /\ pc = "exited" /\ prev_run[1].warned # warned) =>
          /\ stdout = prev_run[1].out
          /\ exit_code = prev_run[1].code

\* C11 witness: a launch with a non-zero status on some query and a launch with
\* none have both finished, with a database of two entries.
C11_Witness ==
    /\ prev_run # <<>>
    /\ prev_run[1].warned /\ ~warned
    /\ Succeeded
    /\ Len(Output.db) >= 2

\* C12: once a query has ended with a non-zero status and no output, the run is
\* aborted with a non-zero status, nothing has been or is printed, and that
\* query is the last one issued.
C12_QueryFailureAborts ==
    failed # 0 =>
        /\ pc = "aborted"
        /\ exit_code # 0
        /\ stdout = <<>>
        /\ Len(log) = failed

\* C12 witness: the run was aborted by a failing kind query of a dependency,
\* after a node's info had been stored.
C12_Witness ==
    /\ failed # 0
    /\ Last(log).q = "kind"
    /\ DOMAIN info_cache # {}
    /\ stack # <<>>

\* the fields of a database entry; `key` is the entry's key in the mapping
EntryFields == {"srcs", "deps", "python_version", "python_platform", "buildfile_path"}

FiveFields(db) == \A k \in 1..Len(db) : DOMAIN db[k] \ {"key"} = EntryFields

\* C13: every database entry has exactly the fields srcs, deps, python_version,
\* python_platform and buildfile_path, and all entries of a run carry the same
\* python_version and the same python_platform.
C13_FiveFieldsSameInterpreter ==
    /\ FiveFields(result_db)
    /\ Succeeded =>
          /\ FiveFields(Output.db)
          /\ \A j \in 1..Len(Output.db) : \A k \in 1..Len(Output.db) :
                /\ Output.db[j].python_version = Output.db[k].python_version
                /\ Output.db[j].python_platform = Output.db[k].python_platform
          /\ \A k \in 1..Len(Output.db) :
                /\ Output.db[k].python_version = PyVersion
                /\ Output.db[k].python_platform = system_python_platform(SysPlatform)

\* C13 witness: a finished run whose database has three entries, one of them
\* without dependencies and one without a build file path.
C13_Witness ==
    /\ Succeeded
    /\ Len(Output.db) >= 3
    /\ \E k \in 1..Len(Output.db) : Output.db[k].deps = <<>>
    /\ \E k \in 1..Len(Output.db) : Output.db[k].buildfile_path = Empty

\* the package directory of a root-relative label of the workspace
PackageDir(label) == IF label = LA THEN <<"s">> ELSE IF label = LB THEN <<"c">> ELSE <<"x">>

\* the buildfile_path a node must get: empty for a label that is not
\* root-relative or whose package holds neither BUILD.bazel nor BUILD, else the
\* first of the two that exists, relative to the workspace root after //
ExpectedBuildfile(label) ==
    LET dir == <<"/","w","/">> \o PackageDir(label) \o <<"/">>
    IN  IF label[1] # "/" THEN Empty
        ELSE IF dir \o BuildBazel \in disk THEN RootPrefix \o PackageDir(label) \o <<"/">> \o BuildBazel
        ELSE IF dir \o BuildPlain \in disk THEN RootPrefix \o PackageDir(label) \o <<"/">> \o BuildPlain
        ELSE Empty

BuildfileRule(db) ==
    \A k \in 1..Len(db) :
        /\ db[k].buildfile_path = ExpectedBuildfile(db[k].key)
        /\ db[k].buildfile_path = Empty \/ StartsWith(db[k].buildfile_path, RootPrefix)

\* C14: the buildfile_path of every entry is the empty string (label not
\* root-relative, or no BUILD.bazel and no BUILD in the package directory) or
\* the path of the build file relative to the workspace root, beginning with
\* //; a run is aborted only by a failing query, never by a missing build file.
C14_BuildfilePathForm ==
    /\ BuildfileRule(result_db)
    /\ Succeeded => BuildfileRule(Output.db)
    /\ pc = "aborted" => failed # 0
    /\ (pc = "exited" /\ files # <<>>) => exit_code = 0

\* C14 witness: a finished run in a workspace where package s holds BUILD only
\* and package c no build file, with entries for both and for an external node.
C14_Witness ==
    /\ Succeeded
    /\ disk = {BuildS}
    /\ {LA, LB, LC} \subseteq DbKeys(Output.db)
    /\ Entry(Output.db, LA).buildfile_path = <<"/","/","s","/","B","U","I","L","D">>
    /\ Entry(Output.db, LB).buildfile_path = Empty
    /\ Entry(Output.db, LC).buildfile_path = Empty

\* C15: no external request is issued twice during a run; in particular
\* labels('srcs', X) is issued at most once for every identifier X.
C15_EachRequestAtMostOnce ==
    /\ \A l \in Labels : Count("srcs", l) <= 1
    /\ \A j \in 1..Len(log) : \A k \in 1..Len(log) : log[j] = log[k] => j = k

\* position of a node in the emitted sequence, 0 when it is not in it
TopoIndex(n) == IF InSeq(n, topo) THEN CHOOSE k \in 1..Len(topo) : topo[k] = n ELSE 0

\* the Python-kind dependencies the traversal recorded for an emitted node
TopoDeps(k) == SeqSet(info_cache[topo[k]].deps_labels)

\* C16 as stated: every Python-kind dependency of every node of topo is in
\* topo at an earlier position, whatever the dependency graph.
C16_PostOrderAll ==
    \A k \in 1..Len(topo) : \A d \in TopoDeps(k) :
        TopoIndex(d) # 0 /\ TopoIndex(d) < k

\* C16 amended: every Python-kind dependency of a node of topo that does not
\* itself depend on that node, directly or through other nodes, is in topo at
\* an earlier position; on an acyclic graph that is every dependency.
C16_PostOrderUpToCycles ==
    \A k \in 1..Len(topo) : \A d \in TopoDeps(k) :
        \/ TopoIndex(d) # 0 /\ TopoIndex(d) < k
        \/ topo[k] \in Reach(PyEdges(d))

\* C16 witness: a finished traversal of a -> b, b -> a, b -> c: c is emitted
\* before b and b before a, and a, a dependency of b, after b.
C16_Witness ==
    /\ Succeeded
    /\ Len(topo) = 3
    /\ topo[1] \in TopoDeps(2) /\ topo[2] \in TopoDeps(3) /\ topo[3] \in TopoDeps(2)
    /\ topo[1] \notin TopoDeps(3)

\* the nodes whose dfs call has started and not yet returned, outermost first
Visiting == [k \in 1..Len(stack) |-> stack[k].label]

\* C17: each node is processed at most once by the traversal: no identifier
\* is twice in topo, none is entered again while being visited or after it
\* was emitted, and the kind and deps requests that compute a node's info are
\* issued at most once per node, whatever paths, roots or cycles reach it.
C17_ProcessedAtMostOnce ==
    /\ NoRepeat(Visiting \o topo)
    /\ SeqSet(Visiting \o topo) \subseteq seen
    /\ \A l \in Labels : Count("kind", l) <= 1 /\ Count("deps", l) <= 1

\* C17 witness: a finished traversal in which a node was reached again after
\* it was entered: b is a dependency of two emitted nodes, one of them b itself.
C17_Witness ==
    /\ Succeeded
    /\ \E a \in SeqSet(topo) : \E b \in SeqSet(topo) :
          /\ a # b
          /\ b \in SeqSet(info_cache[a].deps_labels)
          /\ b \in SeqSet(info_cache[b].deps_labels)

\* the nodes that lie on a dependency cycle, a self-dependency included
OnCycle == {n \in seen : n \in Reach(PyEdges(n))}

\* the longest dependency list a node can declare
MaxDeps == MaxEdges + 1

Stage(at) ==
    IF at = "kind" THEN 4 ELSE IF at = "srcs" THEN 3 ELSE IF at = "deps" THEN 2
    ELSE IF at = "filter" THEN 1 ELSE 0

\* a bound on the steps one activation of dfs still takes by itself
FrameLeft(f) ==
    1 + Stage(f.at) * (MaxDeps + 1)
      + (IF f.at = "filter" THEN Len(f.dep_labels_all) + 1 - f.j
         ELSE IF f.at = "recurse" THEN Len(f.py_dep_labels) + 1 - f.j
         ELSE MaxDeps)

FrameMax == 1 + 4 * (MaxDeps + 1) + MaxDeps

RECURSIVE StackLeft(_)
StackLeft(stk) == IF stk = <<>> THEN 0 ELSE FrameLeft(Head(stk)) + StackLeft(Tail(stk))

\* a bound on the steps the traversal still takes: the nodes not yet visited,
\* the roots not yet started and the rest of every running activation
TraversalLeft ==
    Cardinality(Labels \ seen) * (FrameMax + 1) + (Len(roots) + 1 - idx) + StackLeft(stack)

\* C18: the traversal terminates on every dependency graph, with
\* self-dependencies and longer cycles too: every step of the traversal
\* lowers a bound that is a natural number, so the traversal takes finitely
\* many steps; the run ends with an uncaught error only after a failed query,
\* never because of a cycle; and a successful run has a database entry for
\* every node traversed, the nodes of cycles included.
C18_TraversalTerminates ==
    /\ [][pc = "dfs" /\ pc' = "dfs" => TraversalLeft' < TraversalLeft]_vars
    /\ [](pc = "dfs" => TraversalLeft >= 0)
    /\ [](pc = "aborted" => failed # 0)
    /\ [](Succeeded /\ files # <<>> => seen \subseteq DbKeys(Output.db))

\* C18 witness: a finished run over a graph with a self-dependency and a
\* cycle of two nodes, all of whose nodes have an entry.
C18_Witness ==
    /\ Succeeded
    /\ \E a \in OnCycle : a \in PyEdges(a)
    /\ \E a \in OnCycle : \E b \in OnCycle : a # b /\ b \in PyEdges(a) /\ a \in PyEdges(b)
    /\ OnCycle \subseteq DbKeys(Output.db)

\* the database after the first m calls of add_entry
DbAfter(m) == IF m = 0 THEN <<>> ELSE db_trace[m]

IsPrefix(s, t) == Len(s) <= Len(t) /\ SubSeq(t, 1, Len(s)) = s

\* entry e grew into entry f: same key and interpreter fields, every module
\* key, path and dependency kept at its position, a set build file kept
EntryGrows(e, f) ==
    /\ f.key = e.key
    /\ f.python_version = e.python_version
    /\ f.python_platform = e.python_platform
    /\ IsPrefix(e.deps, f.deps)
    /\ Len(e.srcs) <= Len(f.srcs)
    /\ \A i \in 1..Len(e.srcs) :
          f.srcs[i].mod = e.srcs[i].mod /\ IsPrefix(e.srcs[i].paths, f.srcs[i].paths)
    /\ e.buildfile_path # Empty => f.buildfile_path = e.buildfile_path

\* C19: across every sequence of add_entry calls the database only grows: a
\* key stays, at its position; no entry is replaced; the srcs keys, the srcs
\* path lists and the deps of an entry only gain elements behind the ones they
\* hold; a build file path that is not empty is never changed.
C19_MonotonicGrowth ==
    \A m \in 1..Len(db_trace) :
        /\ Len(DbAfter(m - 1)) <= Len(DbAfter(m))
        /\ \A k \in 1..Len(DbAfter(m - 1)) : EntryGrows(DbAfter(m - 1)[k], DbAfter(m)[k])

\* C19 witness: three calls for one key; the second came with another build
\* file and added a module path and a dependency to the entry the first made,
\* the third added nothing; the entry still names the first build file.
C19_Witness ==
    /\ Len(applied) = 3
    /\ applied[1].label = applied[2].label /\ applied[2].label = applied[3].label
    /\ applied[1].abs_buildfile_path # Empty
    /\ applied[2].abs_buildfile_path \notin {Empty, applied[1].abs_buildfile_path}
    /\ applied[3].abs_buildfile_path = Empty
    /\ Len(db_trace[2][1].deps) > Len(db_trace[1][1].deps)
    /\ Len(db_trace[2][1].srcs[1].paths) > Len(db_trace[1][1].srcs[1].paths)
    /\ db_trace[3][1].buildfile_path = db_trace[1][1].buildfile_path
    /\ db_trace[3][1].buildfile_path # Empty

\* the enumerated nodes declaring a path that ends with the given one
SuffixCandidates(rel) ==
    {t \in SeqSet(extTargets[1]) : \E p \in SrcPaths(t) : EndsWith(p, rel)}

\* the owners contributed by the first n requested files
OwnersOfFirst(n) == UNION {OwnersOfFile(RelName(files[k])) : k \in 1..n}

\* C20: a requested file whose normalized path is a key of the ownership
\* mapping contributes exactly the owners of that key, a file whose path is
\* no key contributes the owners of every key that ends with the path, and
\* the root set is the union of the contributions of all requested files.
C20_OwnerResolution ==
    /\ pc = "resolve" => requested_targets = OwnersOfFirst(idx - 1)
    /\ pc \in {"dfs", "assemble"} \/ (Succeeded /\ files # <<>>) =>
          /\ files = ListedFiles(listing)
          /\ requested_targets = OwnersOfRequested
          /\ SeqSet(roots) = OwnersOfRequested

\* C20 witness: the roots are resolved for a file whose path is a key owned
\* by one node, while another enumerated node declares a path ending with it.
C20_Witness ==
    /\ pc = "dfs"
    /\ files = <<F4>>
    /\ requested_targets = {LB}
    /\ ExactOwners(RelName(F4)) = {LB}
    /\ LA \in SuffixCandidates(RelName(F4))

\* C21: a second run of build_db_for_files in the same process starts with an
\* empty node-info cache and an empty kind cache, and when it succeeds it has
\* issued the sequence of external queries the first run issued.
C21_CachesLocalToRun ==
    prev_run # <<>> =>
        /\ pc = "workspace" => info_cache = <<>> /\ label_kind_cache = <<>>
        /\ Succeeded => log = prev_run[1].log

\* every identifier an entry of db lists in deps is a key of db
DepsClosed(db) == \A k \in 1..Len(db) : SeqSet(db[k].deps) \subseteq DbKeys(db)

\* C22: in every successful output every identifier listed in the deps of an
\* entry is itself a key of the database, on graphs with cycles too.
C22_DepsAreKeys == Succeeded /\ files # <<>> => DepsClosed(Output.db)

\* C22 witness: a successful output in which an entry lists two dependencies,
\* one of them a node that depends back on it, and all of them are keys.
C22_Witness ==
    /\ Succeeded /\ files # <<>>
    /\ \E k \in 1..Len(Output.db) :
          /\ Len(Output.db[k].deps) >= 2
          /\ \E d \in SeqSet(Output.db[k].deps) :
                /\ d # Output.db[k].key
                /\ InSeq(Output.db[k].key, Entry(Output.db, d).deps)

\* both launches printed a database
BothSucceeded == prev_run # <<>> /\ Succeeded /\ prev_run[1].code = 0

PrevOutput == prev_run[1].out[1]

\* C23: two launches against the same external system whose requests resolve
\* to the same set of root nodes (files permuted, a file repeated, a file
\* added whose owners are roots already) print the same output; two launches
\* whose databases have the same keys (a file added whose owners are reached
\* from the other roots) have the same content in every entry.
C23_InputListInsensitive ==
    BothSucceeded =>
        /\ requested_targets = prev_run[1].requested => stdout = prev_run[1].out
        /\ DbKeys(Output.db) = DbKeys(PrevOutput.db) =>
              \A key \in DbKeys(Output.db) : Entry(Output.db, key) = Entry(PrevOutput.db, key)

\* C23 witness: the second launch added a file, its root set is larger than
\* the first one's, and both databases have the same two or more keys.
C23_Witness ==
    /\ BothSucceeded
    /\ listing # prev_run[1].listing
    /\ requested_targets # prev_run[1].requested
    /\ prev_run[1].requested \subseteq requested_targets
    /\ DbKeys(Output.db) = DbKeys(PrevOutput.db)
    /\ Len(Output.db) >= 2

====
